---- MODULE Spec2Model ----
(***************************************************************************)
(* State-machine model of the PublicUpload page component                  *)
(* (src/ui/src/pages/PublicUpload.tsx).                                    *)
(*                                                                         *)
(* The React state of the component, the reCAPTCHA widget it renders, the  *)
(* session supplied by useAuth and the asynchronous submission handlers    *)
(* are the state.  Every event handler is one action; an async handler is  *)
(* cut at its awaits: the synchronous part up to the first await, the      *)
(* FileReader callback, and the continuation after the endpoint promise    *)
(* settles (the rest of try, or catch, always followed by finally).        *)
(* A handler closes over `user` as rendered when it was invoked, so the    *)
(* continuation uses the captured session, not the current one.            *)
(***************************************************************************)
EXTENDS Integers, Sequences, FiniteSets, TLC

\* ---------------------------------------------------------------- bounds
\* Number of async handler invocations the model can hold in flight at once.
MaxHandlers == 2

\* ------------------------------------------------------------- value sets
NULL == "null"

Users == {"alice"}
SiteKeys == {NULL, "", "6Lc-site-key"}
Tabs == {"pdf", "url"}
Tokens == {"tok1", "tok2"}
DevToken == "dev-token"
DocumentIds == {"doc1", "doc2"}
UploadIds == {"u1", "u2"}
ServerMessages == {NULL, "Invalid menu"}

maxSizeBytes == 10 * 1024 * 1024

FileSizes == {50 * 1024, maxSizeBytes, maxSizeBytes + 1, 50 * 1024 * 1024}
\* files handed to onFileUpload: an empty list, or one file of some size
FileLists == {<< >>} \cup {<< [size |-> n] >> : n \in FileSizes}

\* reader.result of readAsDataURL, cut at its commas
ReaderResults == { <<"data:application/pdf;base64", "JVBERi0xLjQ=">>, <<"data:">> }

\* error.message, cut into words; << >> is an error without a message
ErrorMessages == { << >>, <<"Network", "error">>,
                   <<"Invalid", "reCAPTCHA", "token">>, <<"recaptcha", "failed">> }
\* error.status; 0 is an error without a status
ErrorStatuses == {0, 413, 429, 500}
Errors == [status : ErrorStatuses, message : ErrorMessages]

Slots == 1..MaxHandlers

VARIABLES DEV, VITE_RECAPTCHA_SITE_KEY, user, location, activeTab,
          recaptchaVerified, uploadInProgress, uploadResult, lastDocumentId,
          poll, widgetValue, handlers

vars == << DEV, VITE_RECAPTCHA_SITE_KEY, user, location, activeTab,
           recaptchaVerified, uploadInProgress, uploadResult, lastDocumentId,
           poll, widgetValue, handlers >>

env == << DEV, VITE_RECAPTCHA_SITE_KEY >>

\* ------------------------------------------------------------ JS helpers
Truthy(v) == v # NULL /\ v # ""

\* `${v}` in a template literal
TemplateString(v) == IF v = NULL THEN "undefined" ELSE v

\* i18n: t(key, defaultValue)
T(key, defaultValue) == [key |-> key, defaultValue |-> defaultValue]
\* a message that did not come from t()
Literal(text) == [key |-> NULL, defaultValue |-> text]

NullResult == [null |-> TRUE]
Result(success, message) == [success |-> success, message |-> message]

\* error.message?.includes(word)
Includes(message, word) == \E i \in 1..Len(message) : message[i] = word

\* result.split(',')[1]
Base64Content(result) == IF Len(result) >= 2 THEN result[2] ELSE NULL

\* ------------------------------------------------------------- routes
Here == << "public-upload" >>
RestaurantDetails(uploadId) == << "restaurant-details", TemplateString(uploadId) >>
Login == << "login" >>
UploadRoute == << "upload" >>
MenuInsights == << "dashboard", "menu-insights" >>

Mounted == location = Here

\* ------------------------------------------------------------- messages
fileTooLarge == T("publicUpload.fileTooLarge", "Maximum upload size is 10 MB")
recaptchaRequired ==
    T("publicUpload.recaptchaRequired",
      "Please complete the reCAPTCHA verification to proceed.")
uploadSuccess ==
    T("publicUpload.uploadSuccess",
      "Upload successful! Check your dashboard for analysis results.")
uploadErrorFile == T("publicUpload.uploadError", "Upload failed. Please try again.")
uploadErrorUrl == T("publicUpload.uploadError", "URL parsing failed. Please try again.")
rateLimitError ==
    T("publicUpload.rateLimitError", "Too many uploads. Please wait before trying again.")
recaptchaError ==
    T("publicUpload.recaptchaError", "reCAPTCHA verification failed. Please try again.")

\* -------------------------------------------------- configuration, render
isDev == DEV \/ ~Truthy(VITE_RECAPTCHA_SITE_KEY)

RecaptchaRenderedNoDevCheck ==
    Mounted /\ user = NULL /\ Truthy(VITE_RECAPTCHA_SITE_KEY)

\* {!user && VITE_RECAPTCHA_SITE_KEY && !DEV && <ReCAPTCHA .../>}
RecaptchaRendered ==
    Mounted /\ user = NULL /\ Truthy(VITE_RECAPTCHA_SITE_KEY) /\ ~DEV

\* {!user && (DEV || !VITE_RECAPTCHA_SITE_KEY) && <notice/>}
DevNoticeRendered ==
    Mounted /\ user = NULL /\ (DEV \/ ~Truthy(VITE_RECAPTCHA_SITE_KEY))

CreateAccountRendered == Mounted /\ user = NULL

GoToMenusRendered ==
    Mounted /\ user # NULL /\ uploadResult # NullResult /\ uploadResult.success

DisabledPropDropped == FALSE

\* disabled={uploadInProgress} on <MenuUpload> and <UrlUpload>
ControlsDisabled == uploadInProgress

\* MenuUpload / UrlUpload call their callback only while not disabled
ControlAccepts(tab) == Mounted /\ activeTab = tab /\ ~ControlsDisabled

\* recaptchaRef.current?.getValue()
RecaptchaGetValue == IF RecaptchaRendered THEN widgetValue ELSE NULL

\* recaptchaRef.current?.getValue() || 'dev-token'
recaptchaToken == IF Truthy(RecaptchaGetValue) THEN RecaptchaGetValue ELSE DevToken

\* ------------------------------------------------------ handler pieces
FileTooLargeInclusive(size) == size >= maxSizeBytes

\* typeof file.size === 'number' && file.size > maxSizeBytes
FileTooLarge(size) == size > maxSizeBytes

RecaptchaGateDevFlipped(u, verified, dev) == u = NULL /\ ~verified /\ dev

\* !user && !recaptchaVerified && !isDev
RecaptchaGate(u, verified, dev) == u = NULL /\ ~verified /\ ~dev

Idle == [pc |-> "idle", handler |-> "none", user |-> NULL, endpoint |-> "none",
         recaptchaToken |-> NULL, content |-> NULL]

FreeSlots == {s \in Slots : handlers[s].pc = "idle"}
FreeSlot == CHOOSE s \in FreeSlots : \A r \in FreeSlots : s <= r

PublicEndpoints == {"uploadPublicMenu", "parsePublicUrl"}
AuthEndpoints == {"api.uploadMenu", "api.uploadMenuUrl"}

\* what the endpoints may answer
NullishResponse == [nullish |-> TRUE]
Response(success, documentId, uploadId, message) ==
    [nullish |-> FALSE, success |-> success, documentId |-> documentId,
     uploadId |-> uploadId, message |-> message]
AuthResponses ==
    {Response(TRUE, d, NULL, NULL) : d \in DocumentIds \cup {NULL}}
    \cup {Response(FALSE, d, NULL, m) : d \in DocumentIds \cup {NULL}, m \in ServerMessages}
PublicResponses ==
    {Response(TRUE, NULL, u, NULL) : u \in UploadIds \cup {NULL}}
    \cup {Response(FALSE, NULL, NULL, m) : m \in ServerMessages}
ResponsesOf(endpoint) ==
    (IF endpoint \in AuthEndpoints THEN AuthResponses ELSE PublicResponses)
    \cup {NullishResponse}

\* the hook's start(): polling begins for the document id the hook was given
startPolling(documentId) == [isPolling |-> TRUE, documentId |-> documentId]

KeepLastDocumentId(response, old) == old

\* if (response?.documentId) setLastDocumentId(response.documentId)
NextLastDocumentId(response, old) ==
    IF ~response.nullish /\ Truthy(response.documentId) THEN response.documentId ELSE old

\* if (response?.documentId) { ...; startPolling() }
NextPoll(response, documentId) ==
    IF ~response.nullish /\ Truthy(response.documentId)
    THEN startPolling(documentId) ELSE poll

NavigateToFirstUpload(response) == RestaurantDetails("u1")

\* navigate(`/restaurant-details/${response.uploadId}`)
NavigateTarget(response) == RestaurantDetails(response.uploadId)

ErrorMessageFileKeywordFirst(error) ==
    IF Includes(error.message, "reCAPTCHA") THEN recaptchaError
    ELSE IF error.status = 429 THEN rateLimitError
    ELSE IF error.status = 413 THEN fileTooLarge
    ELSE uploadErrorFile

\* catch block of handleFileUpload
ErrorMessageFile(error) ==
    IF error.status = 429 THEN rateLimitError
    ELSE IF error.status = 413 THEN fileTooLarge
    ELSE IF Includes(error.message, "reCAPTCHA") THEN recaptchaError
    ELSE uploadErrorFile

\* catch block of handleUrlUpload
ErrorMessageUrl(error) ==
    IF error.status = 429 THEN rateLimitError
    ELSE IF Includes(error.message, "reCAPTCHA") THEN recaptchaError
    ELSE uploadErrorUrl

ErrorMessage(handler, error) ==
    IF handler = "file" THEN ErrorMessageFile(error) ELSE ErrorMessageUrl(error)

uploadError(handler) == IF handler = "file" THEN uploadErrorFile ELSE uploadErrorUrl

\* response.success read on a nullish response throws this
TypeErrorThrown ==
    [status |-> 0, message |-> <<"Cannot", "read", "properties", "of", "undefined">>]
\* FileReader.onerror rejects with a ProgressEvent: no status, no message
ProgressEvent == [status |-> 0, message |-> << >>]

FinallySkipped(inProgress) == inProgress

\* finally { setUploadInProgress(false) }
Finally(inProgress) == FALSE

\* ---------------------------------------------------------------- Init
Init ==
    /\ DEV \in BOOLEAN
    /\ VITE_RECAPTCHA_SITE_KEY \in SiteKeys
    /\ user \in Users \cup {NULL}
    /\ location = Here
    /\ activeTab = "pdf"
    /\ recaptchaVerified = FALSE
    /\ uploadInProgress = FALSE
    /\ uploadResult = NullResult
    /\ lastDocumentId = NULL
    /\ poll = [isPolling |-> FALSE, documentId |-> NULL]
    /\ widgetValue = NULL
    /\ handlers = [s \in Slots |-> Idle]

\* ------------------------------------------------------------- actions
\* <Tabs onValueChange={setActiveTab}>
setActiveTab(tab) ==
    /\ Mounted
    /\ tab # activeTab
    /\ activeTab' = tab
    /\ UNCHANGED << env, user, location, recaptchaVerified, uploadInProgress,
                    uploadResult, lastDocumentId, poll, widgetValue, handlers >>

\* the widget reports a token (solved) or null (expired): onChange
handleRecaptchaChange(token) ==
    /\ RecaptchaRendered
    /\ token = NULL => widgetValue # NULL
    /\ widgetValue' = token
    /\ recaptchaVerified' = Truthy(token)
    /\ UNCHANGED << env, user, location, activeTab, uploadInProgress,
                    uploadResult, lastDocumentId, poll, handlers >>

\* useAuth(): a session appears; the widget is no longer rendered
SignIn(u) ==
    /\ Mounted
    /\ user = NULL
    /\ user' = u
    /\ widgetValue' = NULL
    /\ UNCHANGED << env, location, activeTab, recaptchaVerified, uploadInProgress,
                    uploadResult, lastDocumentId, poll, handlers >>

\* useAuth(): the session ends; a fresh widget is rendered
SignOut ==
    /\ Mounted
    /\ user # NULL
    /\ user' = NULL
    /\ widgetValue' = NULL
    /\ UNCHANGED << env, location, activeTab, recaptchaVerified, uploadInProgress,
                    uploadResult, lastDocumentId, poll, handlers >>

Leave(route) ==
    /\ location' = route
    /\ widgetValue' = NULL
    /\ UNCHANGED << env, user, activeTab, recaptchaVerified, uploadInProgress,
                    uploadResult, lastDocumentId, poll, handlers >>

\* <Header onSignIn={() => navigate('/login')} />
HeaderSignIn == Mounted /\ Leave(Login)

\* <Header onGetStarted={() => navigate('/upload')} />
HeaderGetStarted == Mounted /\ Leave(UploadRoute)

\* "Create Free Account" button
CreateAccountClick == CreateAccountRendered /\ Leave(Login)

\* "Go to My Menus" button
GoToMenusClick == GoToMenusRendered /\ Leave(MenuInsights)

\* setUploadInProgress(true); setUploadResult(null); then the first await
Begin(handler) ==
    /\ uploadInProgress' = TRUE
    /\ uploadResult' = NullResult
    /\ handlers' = [handlers EXCEPT ![FreeSlot] =
         IF user # NULL
         THEN IF handler = "file"
              THEN [Idle EXCEPT !.pc = "reading", !.handler = handler, !.user = user]
              ELSE [Idle EXCEPT !.pc = "calling", !.handler = handler, !.user = user,
                                !.endpoint = "api.uploadMenuUrl"]
         ELSE [Idle EXCEPT !.pc = "calling", !.handler = handler, !.user = user,
                           !.endpoint = IF handler = "file" THEN "uploadPublicMenu"
                                                            ELSE "parsePublicUrl",
                           !.recaptchaToken = recaptchaToken]]
    /\ UNCHANGED << env, user, location, activeTab, recaptchaVerified,
                    lastDocumentId, poll, widgetValue >>

Reject(message) ==
    /\ uploadResult' = Result(FALSE, message)
    /\ UNCHANGED << env, user, location, activeTab, recaptchaVerified, uploadInProgress,
                    lastDocumentId, poll, widgetValue, handlers >>

handleFileUpload(files) ==
    /\ ControlAccepts("pdf")
    /\ FreeSlots # {}
    /\ IF Len(files) = 0
       THEN UNCHANGED vars
       ELSE IF FileTooLarge(files[1].size)
       THEN Reject(fileTooLarge)
       ELSE IF RecaptchaGate(user, recaptchaVerified, isDev)
       THEN Reject(recaptchaRequired)
       ELSE Begin("file")

handleUrlUpload ==
    /\ ControlAccepts("url")
    /\ FreeSlots # {}
    /\ IF RecaptchaGate(user, recaptchaVerified, isDev)
       THEN Reject(recaptchaRequired)
       ELSE Begin("url")

\* reader.onload: resolve(base64Content); then api.uploadMenu(...)
FileReaderOnload(s, result) ==
    /\ handlers[s].pc = "reading"
    /\ handlers' = [handlers EXCEPT ![s] =
         [@ EXCEPT !.pc = "calling", !.endpoint = "api.uploadMenu",
                   !.content = Base64Content(result)]]
    /\ UNCHANGED << env, user, location, activeTab, recaptchaVerified, uploadInProgress,
                    uploadResult, lastDocumentId, poll, widgetValue >>

\* catch (error) { ... setUploadResult(failure) } finally { ... }
Catch(s, error) ==
    /\ uploadResult' = Result(FALSE, ErrorMessage(handlers[s].handler, error))
    /\ uploadInProgress' = Finally(uploadInProgress)
    /\ handlers' = [handlers EXCEPT ![s] = Idle]

\* reader.onerror = reject
FileReaderOnerror(s) ==
    /\ handlers[s].pc = "reading"
    /\ Catch(s, ProgressEvent)
    /\ UNCHANGED << env, user, location, activeTab, recaptchaVerified,
                    lastDocumentId, poll, widgetValue >>

\* the endpoint promise resolves: the rest of the try block, then finally
Resolved(s, response) ==
    LET h == handlers[s] IN
    /\ h.pc = "calling"
    /\ response \in ResponsesOf(h.endpoint)
    /\ lastDocumentId' =
         IF h.user # NULL THEN NextLastDocumentId(response, lastDocumentId)
         ELSE lastDocumentId
    /\ poll' = IF h.user # NULL THEN NextPoll(response, lastDocumentId') ELSE poll
    /\ IF response.nullish
       THEN /\ Catch(s, TypeErrorThrown)
            /\ UNCHANGED << location, recaptchaVerified, widgetValue >>
       ELSE /\ IF response.success
               THEN IF h.user # NULL
                    THEN /\ uploadResult' = Result(TRUE, uploadSuccess)
                         /\ UNCHANGED location
                    ELSE /\ location' = NavigateTarget(response)
                         /\ UNCHANGED uploadResult
               ELSE /\ uploadResult' =
                         Result(FALSE, IF Truthy(response.message)
                                       THEN Literal(response.message)
                                       ELSE uploadError(h.handler))
                    /\ UNCHANGED location
            /\ IF h.user = NULL
               THEN /\ widgetValue' = NULL
                    /\ recaptchaVerified' = FALSE
               ELSE UNCHANGED << widgetValue, recaptchaVerified >>
            /\ uploadInProgress' = Finally(uploadInProgress)
            /\ handlers' = [handlers EXCEPT ![s] = Idle]
    /\ UNCHANGED << env, user, activeTab >>

\* the endpoint promise rejects: catch, then finally
Rejected(s, error) ==
    /\ handlers[s].pc = "calling"
    /\ Catch(s, error)
    /\ UNCHANGED << env, user, location, activeTab, recaptchaVerified,
                    lastDocumentId, poll, widgetValue >>

\* the polling hook obtains a status and stops polling
PollSettled ==
    /\ poll.isPolling
    /\ poll' = [poll EXCEPT !.isPolling = FALSE]
    /\ UNCHANGED << env, user, location, activeTab, recaptchaVerified, uploadInProgress,
                    uploadResult, lastDocumentId, widgetValue, handlers >>

Next ==
    \/ \E tab \in Tabs : setActiveTab(tab)
    \/ \E token \in Tokens \cup {NULL} : handleRecaptchaChange(token)
    \/ \E u \in Users : SignIn(u)
    \/ SignOut
    \/ HeaderSignIn
    \/ HeaderGetStarted
    \/ CreateAccountClick
    \/ GoToMenusClick
    \/ \E files \in FileLists : handleFileUpload(files)
    \/ handleUrlUpload
    \/ \E s \in Slots, result \in ReaderResults : FileReaderOnload(s, result)
    \/ \E s \in Slots : FileReaderOnerror(s)
    \/ \E s \in Slots, response \in AuthResponses \cup PublicResponses \cup {NullishResponse} :
          Resolved(s, response)
    \/ \E s \in Slots, error \in Errors : Rejected(s, error)
    \/ PollSettled

Spec == Init /\ [][Next]_vars

\* every file read and every endpoint call eventually completes or fails
Settle ==
    \/ \E s \in Slots, result \in ReaderResults : FileReaderOnload(s, result)
    \/ \E s \in Slots : FileReaderOnerror(s)
    \/ \E s \in Slots, response \in AuthResponses \cup PublicResponses \cup {NullishResponse} :
          Resolved(s, response)
    \/ \E s \in Slots, error \in Errors : Rejected(s, error)

FairSpec == Spec /\ WF_vars(Settle)

\* ------------------------------------------------------------- claims
Active == {s \in Slots : handlers[s].pc # "idle"}
Calling(s) == handlers[s].pc = "calling"
\* a file list that passes the local file checks of handleFileUpload
ValidFileLists == {files \in FileLists : Len(files) > 0 /\ files[1].size <= 10 * 1024 * 1024}
OversizedFileLists == {files \in FileLists : Len(files) > 0 /\ files[1].size > 10 * 1024 * 1024}
VerificationRequired == Result(FALSE, recaptchaRequired)
NonDevConfig == ~DEV /\ VITE_RECAPTCHA_SITE_KEY \notin {NULL, ""}
LocallyRejectedForVerification ==
    /\ uploadResult' = VerificationRequired
    /\ uploadInProgress' = FALSE
    /\ handlers' = handlers
NoPublicCallStarted ==
    \A s \in Slots :
        (handlers'[s].pc = "calling" /\ handlers'[s].endpoint \in PublicEndpoints)
            => handlers'[s] = handlers[s]

\* C1 as stated: in a non-development configuration, for an anonymous user whose
\* recaptchaVerified flag is false, handleFileUpload (for any files) and
\* handleUrlUpload set uploadResult to the verification-required failure, leave
\* uploadInProgress false and call no endpoint; and no step starts a public
\* endpoint call while the flag is false.
C1_Original ==
    [][ (NonDevConfig /\ user = NULL /\ ~recaptchaVerified) =>
          /\ \A files \in FileLists :
                handleFileUpload(files) => LocallyRejectedForVerification
          /\ handleUrlUpload => LocallyRejectedForVerification
          /\ NoPublicCallStarted ]_vars

\* C1 amended: the same, where handleFileUpload is given a file that passes the
\* size check (a file larger than 10 MiB is reported as too large before the
\* verification gate is reached).
C1_VerificationGate ==
    [][ (NonDevConfig /\ user = NULL /\ ~recaptchaVerified) =>
          /\ \A files \in ValidFileLists :
                handleFileUpload(files) => LocallyRejectedForVerification
          /\ handleUrlUpload => LocallyRejectedForVerification
          /\ NoPublicCallStarted ]_vars

C1_Witness ==
    /\ NonDevConfig /\ user = NULL /\ ~recaptchaVerified
    /\ uploadResult = VerificationRequired
    /\ ~uploadInProgress /\ Active = {}

\* C2: a file larger than 10 * 1024 * 1024 bytes is rejected by handleFileUpload
\* with the file-too-large failure, whoever the user and whatever the
\* verification state and configuration, with no endpoint call and without
\* touching uploadInProgress; a file of exactly that size is not rejected so.
C2_FileSizeLimit ==
    [][ /\ \A files \in OversizedFileLists :
              handleFileUpload(files) =>
                 /\ uploadResult' = Result(FALSE, fileTooLarge)
                 /\ handlers' = handlers
                 /\ uploadInProgress' = uploadInProgress /\ ~uploadInProgress'
        /\ handleFileUpload(<< [size |-> 10 * 1024 * 1024] >>) =>
              uploadResult' # Result(FALSE, fileTooLarge) ]_vars

C2_Witness ==
    /\ uploadResult = Result(FALSE, fileTooLarge)
    /\ user # NULL /\ lastDocumentId = NULL
    /\ ~uploadInProgress /\ Active = {}

\* C3: an anonymous user holding a verified token, or in a development/no-site-key
\* configuration, whose submission passes the local checks, starts a call to the
\* public endpoint of the tab; a handler invoked without a session never calls an
\* authenticated endpoint; and when its response has success = true the page goes
\* to /restaurant-details/<uploadId of that response>, without a success
\* uploadResult, without setting lastDocumentId and without starting polling.
C3_AnonymousDispatch ==
    /\ [](\A s \in Slots : (handlers[s].pc # "idle" /\ handlers[s].user = NULL) =>
              (Calling(s) /\ handlers[s].endpoint \in PublicEndpoints))
    /\ [][ /\ (user = NULL /\ (recaptchaVerified \/ ~NonDevConfig)) =>
               /\ \A files \in ValidFileLists : handleFileUpload(files) =>
                     \E s \in Slots : /\ ~Calling(s) /\ Calling(s)'
                                      /\ handlers'[s].endpoint = "uploadPublicMenu"
               /\ handleUrlUpload =>
                     \E s \in Slots : /\ ~Calling(s) /\ Calling(s)'
                                      /\ handlers'[s].endpoint = "parsePublicUrl"
           /\ \A s \in Slots, response \in PublicResponses :
                (handlers[s].user = NULL /\ Resolved(s, response) /\ response.success) =>
                   /\ response.uploadId # NULL =>
                         location' = << "restaurant-details", response.uploadId >>
                   /\ location' # location
                   /\ uploadResult' = NullResult \/ ~uploadResult'.success
                   /\ lastDocumentId' = lastDocumentId
                   /\ poll' = poll ]_vars

C3_Witness ==
    /\ location = << "restaurant-details", "u2" >>
    /\ user = NULL /\ NonDevConfig
    /\ uploadResult = NullResult /\ lastDocumentId = NULL /\ ~poll.isPolling

C5_ResetAfterAnonymousAttempt ==
    [][ \A s \in Slots :
          (Calling(s) /\ handlers[s].user = NULL /\ handlers'[s].pc = "idle") =>
              (recaptchaVerified' = FALSE /\ widgetValue' = NULL) ]_vars

\* C6: a call that fails with an error: status 429 gives the rate-limit message
\* on both tabs; status 413 gives the file-too-large message on the file tab only;
\* the keyword reCAPTCHA in the error message gives the verification-failure
\* message when the status is neither 429 nor (file tab) 413; every other error
\* gives the generic message of the tab; uploadResult is always a failure.
C6_ErrorClassification ==
    [][ \A s \in Slots, error \in Errors :
          Rejected(s, error) =>
             LET file == handlers[s].handler = "file"
                 keyword == \E i \in DOMAIN error.message : error.message[i] = "reCAPTCHA"
                 special == error.status = 429 \/ (file /\ error.status = 413)
             IN /\ uploadResult' # NullResult
                /\ uploadResult'.success = FALSE
                /\ error.status = 429 => uploadResult'.message = rateLimitError
                /\ (error.status = 413 /\ file) => uploadResult'.message = fileTooLarge
                /\ (keyword /\ ~special) => uploadResult'.message = recaptchaError
                /\ (~keyword /\ ~special) =>
                      uploadResult'.message =
                          T("publicUpload.uploadError",
                            IF file THEN "Upload failed. Please try again."
                                    ELSE "URL parsing failed. Please try again.") ]_vars

C6_Witness ==
    /\ uploadResult = Result(FALSE, recaptchaError)
    /\ ~uploadInProgress /\ Active = {}

\* C7: at most one submission is in flight; from the step that sets
\* uploadInProgress until the step that clears it both controls are disabled, no
\* further handler invocation starts, on either tab, and nothing writes
\* uploadResult or uploadInProgress.
C7_SingleSubmission ==
    /\ [](/\ Cardinality(Active) <= 1
          /\ uploadInProgress <=> Active # {}
          /\ uploadInProgress => \A tab \in Tabs : ~ControlAccepts(tab))
    /\ [][ (uploadInProgress /\ uploadInProgress') =>
              /\ \A s \in Slots : handlers[s].pc = "idle" => handlers'[s].pc = "idle"
              /\ uploadResult' = uploadResult ]_vars

C7_Witness ==
    /\ uploadInProgress /\ location = Here
    /\ activeTab = "url"
    /\ \E s \in Slots : Calling(s) /\ handlers[s].handler = "file"

\* C8: with every file read and endpoint call eventually completing or failing,
\* a submission that set uploadInProgress eventually clears it, and the controls
\* are enabled again.
C8_BusyFlagCleared == uploadInProgress ~> (~uploadInProgress /\ ~ControlsDisabled)

C8_Witness ==
    /\ ~uploadInProgress /\ Active = {} /\ location = Here
    /\ uploadResult = Result(FALSE, rateLimitError)
    /\ \E tab \in Tabs : ControlAccepts(tab)

\* C9: in a non-development configuration every call to a public endpoint carries
\* a token read from the verification widget, never the fallback 'dev-token'.
C9_DevTokenOnlyInDevConfig ==
    \A s \in Slots :
        (Calling(s) /\ handlers[s].endpoint \in PublicEndpoints /\ NonDevConfig) =>
            handlers[s].recaptchaToken \in Tokens

\* C10: the widget renders iff there is no session, a site key is configured and
\* DEV is false; the development notice renders iff there is no session and (DEV
\* or no site key); an anonymous user sees exactly one of them and an
\* authenticated user neither; and an unverified anonymous submission is refused
\* for verification exactly when the widget is rendered.
C10_VisibilityMatchesGate ==
    /\ [](Mounted =>
            /\ RecaptchaRendered <=> (user = NULL /\ NonDevConfig)
            /\ DevNoticeRendered <=> (user = NULL /\ ~NonDevConfig)
            /\ user = NULL => (RecaptchaRendered # DevNoticeRendered)
            /\ user # NULL => (~RecaptchaRendered /\ ~DevNoticeRendered))
    /\ [][ (user = NULL /\ ~recaptchaVerified) =>
              /\ \A files \in ValidFileLists : handleFileUpload(files) =>
                    (uploadResult' = VerificationRequired <=> RecaptchaRendered)
              /\ handleUrlUpload =>
                    (uploadResult' = VerificationRequired <=> RecaptchaRendered) ]_vars

C10_Witness ==
    /\ DevNoticeRendered /\ ~RecaptchaRendered
    /\ user = NULL /\ ~recaptchaVerified
    /\ uploadInProgress
    /\ \E s \in Slots : Calling(s) /\ handlers[s].recaptchaToken = DevToken

====
